---- MODULE Spec2Model ----
(***************************************************************************)
(* State machine of the FIDES DPP contract (dpp_contract_v2, lib.rs):      *)
(* passport anchor records with issuer authority, an append-only version   *)
(* history, a best-effort subject index and an NFT-like ownership ledger.  *)
(*                                                                         *)
(* Every message of the contract is a pure operator from the storage       *)
(* before the call to an outcome [st, res, ev]: the storage as the code    *)
(* leaves it (writes made before an early return are kept: no rollback by  *)
(* the host is assumed), the returned Result and the events emitted.  The  *)
(* host runs one message at a time to completion: an action applies one    *)
(* message to the current storage and leaves its Result in `call`, Return  *)
(* hands the Result back and makes the contract ready for the next one.    *)
(***************************************************************************)
EXTENDS Integers, Sequences, FiniteSets, TLC

\* ------------------------------------------------------------------ bounds
\* Registrations explored: token ids 0 .. MaxTokens-1 get registered.
MaxTokens == 2
\* Successful (Ok) messages explored in one run of the contract.
MaxCalls == 3
\* Highest value of the host's block counter.
MaxBlock == 1

\* ------------------------------------------------------------ value domains
\* Option<T>: None is the empty tuple, Some(x) the one-element tuple.
None == <<>>
Some(x) == <<x>>
Unwrap(o) == o[1]

\* Result<T>: Ok(()) / Ok(token_id) / Err(Error).
OkUnit == <<"Ok">>
Ok(v) == <<"Ok", v>>
Err(e) == <<"Err", e>>
IsOk(r) == r[1] = "Ok"
IsErr(r) == r[1] = "Err"

Address == {"alice", "bob", "charlie"}

\* Keys of the token-keyed mappings (one more than the ids ever registered).
TokenId == 0 .. MaxTokens
Version == 1 .. (MaxCalls + 1)

Granularity == {"ProductClass", "Batch", "Item"}
PassportStatus == {"Draft", "Active", "Suspended", "Revoked", "Archived"}
Error == {"TokenNotFound", "InvalidInput", "Unauthorized", "NotOwner",
          "NotApproved", "NotAllowed", "PassportRevoked", "AlreadyRevoked"}

\* 32-byte digests, by tag: tag k stands for [k; 32].
SubjectHash == {42, 43}

\* Arguments tried for update_dataset's (dataset_uri, payload_hash,
\* dataset_type): two valid descriptors that differ in every field, one with
\* an empty dataset_uri and one with an empty dataset_type.
DatasetInputs ==
    { [dataset_uri |-> "ipfs://cid", payload_hash |-> 0, dataset_type |-> "application/vc+jwt"],
      [dataset_uri |-> "ipfs://new", payload_hash |-> 1, dataset_type |-> "application/ld+json"],
      [dataset_uri |-> "",           payload_hash |-> 0, dataset_type |-> "application/vc+jwt"],
      [dataset_uri |-> "ipfs://cid", payload_hash |-> 1, dataset_type |-> ""] }
SubjectInputs == {None} \cup {Some(h) : h \in SubjectHash}
\* Arguments tried for register_passport: two valid argument lists that
\* differ in every argument, and one invalid list for each emptiness check.
RegisterInputs ==
    { [dataset_uri |-> "ipfs://cid", payload_hash |-> 0, dataset_type |-> "application/vc+jwt",
       granularity |-> "Batch", subject_id_hash |-> None],
      [dataset_uri |-> "ipfs://new", payload_hash |-> 1, dataset_type |-> "application/ld+json",
       granularity |-> "Item", subject_id_hash |-> Some(42)],
      [dataset_uri |-> "",           payload_hash |-> 0, dataset_type |-> "application/vc+jwt",
       granularity |-> "Item", subject_id_hash |-> Some(42)],
      [dataset_uri |-> "ipfs://cid", payload_hash |-> 1, dataset_type |-> "",
       granularity |-> "Batch", subject_id_hash |-> None] }
ReasonInputs == {None, Some("test reason")}
\* Token ids passed to the messages: the ids the bound lets exist; each is
\* unknown to the contract until its registration.
TokenInputs == 0 .. (MaxTokens - 1)

\* Values tried for get_recent_versions' limit: below, at and above every
\* version number a record can reach.
LimitInputs == 0 .. (MaxCalls + 2)

\* Variant: no string counts as empty.
is_empty_never(s) == FALSE

is_empty(s) == s = ""

\* ------------------------------------------------------------------- state
VARIABLES
    passports,            \* Mapping<u128, PassportRecord>
    next_token_id,        \* u128
    version_history,      \* Mapping<(u128, u32), VersionHistory>
    subject_id_to_token,  \* Mapping<[u8; 32], u128>
    token_owner,          \* Mapping<u128, Address>
    token_approvals,      \* Mapping<u128, Address>
    owned_tokens_count,   \* Mapping<Address, u128>
    operator_approvals,   \* Mapping<(Address, Address), ()>: the set of keys
    block_number,         \* the host's counter, self.env().block_number()
    call,                 \* the message whose Result is being returned, or None
    calls,                \* number of messages that returned Ok so far
    registered,           \* log: the successful register_passport calls, in order
    updates,              \* log: per token, the content of each successful update
    supplied              \* log: the subject hashes given to successful calls

storage_vars == <<passports, next_token_id, version_history, subject_id_to_token,
                  token_owner, token_approvals, owned_tokens_count, operator_approvals>>
vars == <<passports, next_token_id, version_history, subject_id_to_token,
          token_owner, token_approvals, owned_tokens_count, operator_approvals,
          block_number, call, calls, registered, updates, supplied>>

\* The contract's storage as one value.
DppContractV2 ==
    [passports |-> passports, next_token_id |-> next_token_id,
     version_history |-> version_history, subject_id_to_token |-> subject_id_to_token,
     token_owner |-> token_owner, token_approvals |-> token_approvals,
     owned_tokens_count |-> owned_tokens_count, operator_approvals |-> operator_approvals]

\* DppContractV2::new(): every mapping empty, next_token_id 0.
new ==
    [passports |-> [t \in TokenId |-> None],
     next_token_id |-> 0,
     version_history |-> [k \in TokenId \X Version |-> None],
     subject_id_to_token |-> [h \in SubjectHash |-> None],
     token_owner |-> [t \in TokenId |-> None],
     token_approvals |-> [t \in TokenId |-> None],
     owned_tokens_count |-> [a \in Address |-> None],
     operator_approvals |-> {}]

Outcome(s, r, e) == [st |-> s, res |-> r, ev |-> e]

\* ------------------------------------------------------------ read messages
unwrap_or(o, d) == IF o = None THEN d ELSE Unwrap(o)

get_passport(s, token_id) == s.passports[token_id]
balance_of(s, owner) == unwrap_or(s.owned_tokens_count[owner], 0)
owner_of(s, token_id) == s.token_owner[token_id]
get_approved(s, token_id) == s.token_approvals[token_id]
is_approved_for_all(s, owner, operator) == <<owner, operator>> \in s.operator_approvals
get_version(s, token_id, version) == s.version_history[<<token_id, version>>]
find_token_by_subject_id(s, subject_id_hash) == s.subject_id_to_token[subject_id_hash]

\* ------------------------------------------------- internal ownership helpers
\* u128 checked arithmetic.  u128::MAX is far beyond any count of the bounded
\* model (a balance never exceeds next_token_id <= MaxTokens), so checked_add
\* has no overflow case here; checked_sub fails below zero.
checked_add(n, m) == Some(n + m)
checked_sub(n, m) == IF n < m THEN None ELSE Some(n - m)

\* Variant: a single-token approval authorises nothing.
approved_or_owner_holder_or_operator(s, caller, token_id, owner) ==
    caller = owner \/ is_approved_for_all(s, owner, caller)

approved_or_owner(s, caller, token_id, owner) ==
    \/ caller = owner
    \/ s.token_approvals[token_id] = Some(caller)
    \/ is_approved_for_all(s, owner, caller)

\* Variant: the single-token approval survives.
clear_approval_noop(s, token_id) == s

clear_approval(s, token_id) == [s EXCEPT !.token_approvals[token_id] = None]

\* Variant: the count is lowered but the former holder stays recorded.
remove_token_from_keeps_holder(s, from, token_id) ==
    IF s.token_owner[token_id] = None
    THEN [st |-> s, res |-> Err("TokenNotFound")]
    ELSE [st |-> [s EXCEPT !.owned_tokens_count[from] =
                               Some(unwrap_or(s.owned_tokens_count[from], 0) - 1)],
          res |-> OkUnit]

\* Variant: the holder is removed but the former holder's count is kept.
remove_token_from_keeps_count(s, from, token_id) ==
    IF s.token_owner[token_id] = None
    THEN [st |-> s, res |-> Err("TokenNotFound")]
    ELSE [st |-> [s EXCEPT !.token_owner[token_id] = None], res |-> OkUnit]

remove_token_from(s, from, token_id) ==
    IF s.token_owner[token_id] = None
    THEN [st |-> s, res |-> Err("TokenNotFound")]
    ELSE LET count == checked_sub(unwrap_or(s.owned_tokens_count[from], 0), 1)
         IN  IF count = None
             THEN [st |-> s, res |-> Err("InvalidInput")]
             ELSE [st |-> [s EXCEPT !.owned_tokens_count[from] = count,
                                    !.token_owner[token_id] = None],
                   res |-> OkUnit]

\* Variant: the count is raised but the holder is not recorded.
add_token_to_no_holder(s, to, token_id) ==
    IF s.token_owner[token_id] # None
    THEN [st |-> s, res |-> Err("InvalidInput")]
    ELSE [st |-> [s EXCEPT !.owned_tokens_count[to] =
                               Some(unwrap_or(s.owned_tokens_count[to], 0) + 1)],
          res |-> OkUnit]

\* Variant: a token received by an identity that already holds one is not
\* counted.
add_token_to_counts_first_only(s, to, token_id) ==
    IF s.token_owner[token_id] # None
    THEN [st |-> s, res |-> Err("InvalidInput")]
    ELSE [st |-> [s EXCEPT !.owned_tokens_count[to] =
                               IF unwrap_or(@, 0) = 0 THEN Some(1) ELSE @,
                           !.token_owner[token_id] = Some(to)],
          res |-> OkUnit]

add_token_to(s, to, token_id) ==
    IF s.token_owner[token_id] # None
    THEN [st |-> s, res |-> Err("InvalidInput")]
    ELSE LET count == checked_add(unwrap_or(s.owned_tokens_count[to], 0), 1)
         IN  IF count = None
             THEN [st |-> s, res |-> Err("InvalidInput")]
             ELSE [st |-> [s EXCEPT !.owned_tokens_count[to] = count,
                                    !.token_owner[token_id] = Some(to)],
                   res |-> OkUnit]

\* Variant: a token changes hands whatever its status.
transfer_token_from_ignores_revocation(s, caller, from, to, token_id) ==
    IF s.passports[token_id] = None \/ owner_of(s, token_id) = None
    THEN Outcome(s, Err("TokenNotFound"), <<>>)
    ELSE IF Unwrap(owner_of(s, token_id)) # from
    THEN Outcome(s, Err("NotOwner"), <<>>)
    ELSE IF ~approved_or_owner(s, caller, token_id, from)
    THEN Outcome(s, Err("NotApproved"), <<>>)
    ELSE LET s1 == clear_approval(s, token_id)
             r2 == remove_token_from(s1, from, token_id)
             r3 == add_token_to(r2.st, to, token_id)
         IN  Outcome(r3.st, OkUnit,
                     << [event |-> "Transfer", from |-> Some(from),
                         to |-> Some(to), token_id |-> token_id] >>)

\* Variant: the caller's authorisation is checked before `from`.
transfer_token_from_approval_first(s, caller, from, to, token_id) ==
    IF s.passports[token_id] = None \/ owner_of(s, token_id) = None
    THEN Outcome(s, Err("TokenNotFound"), <<>>)
    ELSE IF Unwrap(s.passports[token_id]).status = "Revoked"
    THEN Outcome(s, Err("PassportRevoked"), <<>>)
    ELSE IF ~approved_or_owner(s, caller, token_id, Unwrap(owner_of(s, token_id)))
    THEN Outcome(s, Err("NotApproved"), <<>>)
    ELSE IF Unwrap(owner_of(s, token_id)) # from
    THEN Outcome(s, Err("NotOwner"), <<>>)
    ELSE LET s1 == clear_approval(s, token_id)
             r2 == remove_token_from(s1, from, token_id)
             r3 == add_token_to(r2.st, to, token_id)
         IN  Outcome(r3.st, OkUnit,
                     << [event |-> "Transfer", from |-> Some(from),
                         to |-> Some(to), token_id |-> token_id] >>)

transfer_token_from(s, caller, from, to, token_id) ==
    IF s.passports[token_id] = None
    THEN Outcome(s, Err("TokenNotFound"), <<>>)
    ELSE IF Unwrap(s.passports[token_id]).status = "Revoked"
    THEN Outcome(s, Err("PassportRevoked"), <<>>)
    ELSE IF owner_of(s, token_id) = None
    THEN Outcome(s, Err("TokenNotFound"), <<>>)
    ELSE LET owner == Unwrap(owner_of(s, token_id))
         IN  IF owner # from
             THEN Outcome(s, Err("NotOwner"), <<>>)
             ELSE IF ~approved_or_owner(s, caller, token_id, owner)
             THEN Outcome(s, Err("NotApproved"), <<>>)
             ELSE LET s1 == clear_approval(s, token_id)
                      r2 == remove_token_from(s1, from, token_id)
                      r3 == add_token_to(r2.st, to, token_id)
                  IN  IF IsErr(r2.res) THEN Outcome(r2.st, r2.res, <<>>)
                      ELSE IF IsErr(r3.res) THEN Outcome(r3.st, r3.res, <<>>)
                      ELSE Outcome(r3.st, OkUnit,
                                   << [event |-> "Transfer", from |-> Some(from),
                                       to |-> Some(to), token_id |-> token_id] >>)

\* ------------------------------------------------- pieces of the messages
\* Variant: every history entry is numbered 1.
VersionHistory_numbered_one(version, dataset_uri, payload_hash, dataset_type, updated_at, updated_by) ==
    [version |-> 1, dataset_uri |-> dataset_uri, payload_hash |-> payload_hash,
     dataset_type |-> dataset_type, updated_at |-> updated_at, updated_by |-> updated_by]

\* The struct literal of a history entry (register_passport, update_dataset).
VersionHistory(version, dataset_uri, payload_hash, dataset_type, updated_at, updated_by) ==
    [version |-> version,
     dataset_uri |-> dataset_uri,
     payload_hash |-> payload_hash,
     dataset_type |-> dataset_type,
     updated_at |-> updated_at,
     updated_by |-> updated_by]

\* Variant: the subject hash given at registration is not stored in the record.
new_record_drops_subject(token_id, caller, bn, dataset_uri, payload_hash, dataset_type, granularity, subject_id_hash) ==
    [token_id |-> token_id, issuer |-> caller, dataset_uri |-> dataset_uri,
     payload_hash |-> payload_hash, dataset_type |-> dataset_type, version |-> 1,
     status |-> "Active", created_at |-> bn, updated_at |-> bn,
     granularity |-> granularity, subject_id_hash |-> None]

\* register_passport: the record of a new token.
new_record(token_id, caller, bn, dataset_uri, payload_hash, dataset_type, granularity, subject_id_hash) ==
    [token_id |-> token_id,
     issuer |-> caller,
     dataset_uri |-> dataset_uri,
     payload_hash |-> payload_hash,
     dataset_type |-> dataset_type,
     version |-> 1,
     status |-> "Active",
     created_at |-> bn,
     updated_at |-> bn,
     granularity |-> granularity,
     subject_id_hash |-> subject_id_hash]

\* Variant: the counter is not advanced.
increment_next_token_id_forgotten(s) == s

\* register_passport: self.next_token_id += 1.
increment_next_token_id(s) == [s EXCEPT !.next_token_id = @ + 1]

\* Variant: a hash already indexed keeps the token it was first given.
index_subject_keeps_first(s, subject_id_hash, token_id) ==
    IF subject_id_hash # None /\ s.subject_id_to_token[Unwrap(subject_id_hash)] = None
    THEN [s EXCEPT !.subject_id_to_token[Unwrap(subject_id_hash)] = Some(token_id)]
    ELSE s

\* Variant: the entries of the token's other hashes are removed.
index_subject_retracts(s, subject_id_hash, token_id) ==
    [s EXCEPT !.subject_id_to_token =
         [h \in SubjectHash |->
              IF subject_id_hash = Some(h) THEN Some(token_id)
              ELSE IF @[h] = Some(token_id) THEN None
              ELSE @[h]]]

\* register_passport, update_dataset: a subject hash that is given is indexed
\* to the token, whatever the index held for it; nothing is ever removed.
index_subject(s, subject_id_hash, token_id) ==
    IF subject_id_hash # None
    THEN [s EXCEPT !.subject_id_to_token[Unwrap(subject_id_hash)] = Some(token_id)]
    ELSE s

\* Variant: the update reuses the current version number.
new_version_reused(record) == record.version

\* update_dataset: let new_version = record.version + 1.
new_version(record) == record.version + 1

\* Variant: the update leaves the record's version as it was.
updated_record_keeps_version(record, bn, dataset_uri, payload_hash, dataset_type, subject_id_hash) ==
    [record EXCEPT !.dataset_uri = dataset_uri,
                   !.payload_hash = payload_hash,
                   !.dataset_type = dataset_type,
                   !.subject_id_hash = subject_id_hash,
                   !.updated_at = bn]

\* Variant: the update also restamps created_at.
updated_record_restamps_created(record, bn, dataset_uri, payload_hash, dataset_type, subject_id_hash) ==
    [record EXCEPT !.dataset_uri = dataset_uri,
                   !.payload_hash = payload_hash,
                   !.dataset_type = dataset_type,
                   !.subject_id_hash = subject_id_hash,
                   !.version = record.version + 1,
                   !.created_at = bn,
                   !.updated_at = bn]

\* update_dataset: the fields assigned in the current record.
updated_record(record, bn, dataset_uri, payload_hash, dataset_type, subject_id_hash) ==
    [record EXCEPT !.dataset_uri = dataset_uri,
                   !.payload_hash = payload_hash,
                   !.dataset_type = dataset_type,
                   !.subject_id_hash = subject_id_hash,
                   !.version = new_version(record),
                   !.updated_at = bn]

\* Variant: the record is suspended instead of revoked.
revoked_record_suspends(record, bn) ==
    [record EXCEPT !.status = "Suspended", !.updated_at = bn]

\* Variant: the revocation does not refresh updated_at.
revoked_record_keeps_timestamp(record, bn) == [record EXCEPT !.status = "Revoked"]

\* revoke_passport: the fields assigned in the current record.
revoked_record(record, bn) == [record EXCEPT !.status = "Revoked", !.updated_at = bn]

\* ----------------------------------------------------------- write messages
register_passport(s, caller, bn, dataset_uri, payload_hash, dataset_type, granularity, subject_id_hash) ==
    LET token_id == s.next_token_id
    IN  IF is_empty(dataset_uri) \/ is_empty(dataset_type)
        THEN Outcome(s, Err("InvalidInput"), <<>>)
        ELSE LET record == new_record(token_id, caller, bn, dataset_uri, payload_hash,
                                      dataset_type, granularity, subject_id_hash)
                 s1 == [s EXCEPT !.passports[token_id] = Some(record)]
                 r2 == add_token_to(s1, caller, token_id)
             IN  IF IsErr(r2.res) THEN Outcome(r2.st, r2.res, <<>>)
                 ELSE LET s3 == increment_next_token_id(r2.st)
                          s4 == index_subject(s3, subject_id_hash, token_id)
                          s5 == [s4 EXCEPT !.version_history[<<token_id, 1>>] =
                                     Some(VersionHistory(1, dataset_uri, payload_hash,
                                                         dataset_type, bn, caller))]
                      IN  Outcome(s5, Ok(token_id),
                                  << [event |-> "PassportRegistered", token_id |-> token_id,
                                      issuer |-> caller, dataset_uri |-> dataset_uri,
                                      payload_hash |-> payload_hash,
                                      dataset_type |-> dataset_type, version |-> 1,
                                      created_at |-> bn],
                                     [event |-> "Transfer", from |-> None,
                                      to |-> Some(caller), token_id |-> token_id] >>)

\* Variant: the current holder, not the issuer, has authority over the record.
update_dataset_holder_authority(s, caller, bn, token_id, dataset_uri, payload_hash, dataset_type, subject_id_hash) ==
    IF s.passports[token_id] = None
    THEN Outcome(s, Err("TokenNotFound"), <<>>)
    ELSE IF owner_of(s, token_id) # Some(caller)
    THEN Outcome(s, Err("Unauthorized"), <<>>)
    ELSE IF Unwrap(s.passports[token_id]).status = "Revoked"
    THEN Outcome(s, Err("PassportRevoked"), <<>>)
    ELSE IF is_empty(dataset_uri) \/ is_empty(dataset_type)
    THEN Outcome(s, Err("InvalidInput"), <<>>)
    ELSE LET record == Unwrap(s.passports[token_id])
             s1 == index_subject(s, subject_id_hash, token_id)
             s2 == [s1 EXCEPT !.passports[token_id] =
                        Some(updated_record(record, bn, dataset_uri, payload_hash,
                                            dataset_type, subject_id_hash))]
         IN  Outcome([s2 EXCEPT !.version_history[<<token_id, new_version(record)>>] =
                          Some(VersionHistory(new_version(record), dataset_uri,
                                              payload_hash, dataset_type, bn, caller))],
                     OkUnit,
                     << [event |-> "PassportUpdated", token_id |-> token_id,
                         dataset_uri |-> dataset_uri, payload_hash |-> payload_hash,
                         dataset_type |-> dataset_type,
                         version |-> new_version(record), updated_at |-> bn] >>)

\* Variant: the record's status is checked before the issuer.
update_dataset_status_first(s, caller, bn, token_id, dataset_uri, payload_hash, dataset_type, subject_id_hash) ==
    IF s.passports[token_id] = None
    THEN Outcome(s, Err("TokenNotFound"), <<>>)
    ELSE IF Unwrap(s.passports[token_id]).status = "Revoked"
    THEN Outcome(s, Err("PassportRevoked"), <<>>)
    ELSE IF Unwrap(s.passports[token_id]).issuer # caller
    THEN Outcome(s, Err("Unauthorized"), <<>>)
    ELSE IF is_empty(dataset_uri) \/ is_empty(dataset_type)
    THEN Outcome(s, Err("InvalidInput"), <<>>)
    ELSE LET record == Unwrap(s.passports[token_id])
             s1 == index_subject(s, subject_id_hash, token_id)
             s2 == [s1 EXCEPT !.passports[token_id] =
                        Some(updated_record(record, bn, dataset_uri, payload_hash,
                                            dataset_type, subject_id_hash))]
         IN  Outcome([s2 EXCEPT !.version_history[<<token_id, new_version(record)>>] =
                          Some(VersionHistory(new_version(record), dataset_uri,
                                              payload_hash, dataset_type, bn, caller))],
                     OkUnit,
                     << [event |-> "PassportUpdated", token_id |-> token_id,
                         dataset_uri |-> dataset_uri, payload_hash |-> payload_hash,
                         dataset_type |-> dataset_type,
                         version |-> new_version(record), updated_at |-> bn] >>)

\* Variant: the record's status is not looked at.
update_dataset_ignores_revocation(s, caller, bn, token_id, dataset_uri, payload_hash, dataset_type, subject_id_hash) ==
    IF s.passports[token_id] = None
    THEN Outcome(s, Err("TokenNotFound"), <<>>)
    ELSE IF Unwrap(s.passports[token_id]).issuer # caller
    THEN Outcome(s, Err("Unauthorized"), <<>>)
    ELSE IF is_empty(dataset_uri) \/ is_empty(dataset_type)
    THEN Outcome(s, Err("InvalidInput"), <<>>)
    ELSE LET record == Unwrap(s.passports[token_id])
             s1 == index_subject(s, subject_id_hash, token_id)
             s2 == [s1 EXCEPT !.passports[token_id] =
                        Some(updated_record(record, bn, dataset_uri, payload_hash,
                                            dataset_type, subject_id_hash))]
         IN  Outcome([s2 EXCEPT !.version_history[<<token_id, new_version(record)>>] =
                          Some(VersionHistory(new_version(record), dataset_uri,
                                              payload_hash, dataset_type, bn, caller))],
                     OkUnit, <<>>)

\* Variant: the inputs are validated before the record's status.
update_dataset_validates_first(s, caller, bn, token_id, dataset_uri, payload_hash, dataset_type, subject_id_hash) ==
    IF s.passports[token_id] = None
    THEN Outcome(s, Err("TokenNotFound"), <<>>)
    ELSE IF Unwrap(s.passports[token_id]).issuer # caller
    THEN Outcome(s, Err("Unauthorized"), <<>>)
    ELSE IF is_empty(dataset_uri) \/ is_empty(dataset_type)
    THEN Outcome(s, Err("InvalidInput"), <<>>)
    ELSE IF Unwrap(s.passports[token_id]).status = "Revoked"
    THEN Outcome(s, Err("PassportRevoked"), <<>>)
    ELSE update_dataset_ignores_revocation(s, caller, bn, token_id, dataset_uri,
                                           payload_hash, dataset_type, subject_id_hash)

update_dataset(s, caller, bn, token_id, dataset_uri, payload_hash, dataset_type, subject_id_hash) ==
    IF s.passports[token_id] = None
    THEN Outcome(s, Err("TokenNotFound"), <<>>)
    ELSE LET record == Unwrap(s.passports[token_id])
         IN  IF record.issuer # caller
             THEN Outcome(s, Err("Unauthorized"), <<>>)
             ELSE IF record.status = "Revoked"
             THEN Outcome(s, Err("PassportRevoked"), <<>>)
             ELSE IF is_empty(dataset_uri) \/ is_empty(dataset_type)
             THEN Outcome(s, Err("InvalidInput"), <<>>)
             ELSE LET updated == updated_record(record, bn, dataset_uri, payload_hash,
                                                dataset_type, subject_id_hash)
                      \* the old subject hash is looked up and left in place
                      s1 == index_subject(s, subject_id_hash, token_id)
                      s2 == [s1 EXCEPT !.passports[token_id] = Some(updated)]
                      s3 == [s2 EXCEPT !.version_history[<<token_id, new_version(record)>>] =
                                 Some(VersionHistory(new_version(record), dataset_uri,
                                                     payload_hash, dataset_type, bn, caller))]
                  IN  Outcome(s3, OkUnit,
                              << [event |-> "PassportUpdated", token_id |-> token_id,
                                  dataset_uri |-> dataset_uri, payload_hash |-> payload_hash,
                                  dataset_type |-> dataset_type,
                                  version |-> new_version(record), updated_at |-> bn] >>)

\* Variant: the status is checked before the issuer.
revoke_passport_status_first(s, caller, bn, token_id, reason) ==
    IF s.passports[token_id] = None
    THEN Outcome(s, Err("TokenNotFound"), <<>>)
    ELSE LET record == Unwrap(s.passports[token_id])
         IN  IF record.status = "Revoked"
             THEN Outcome(s, Err("AlreadyRevoked"), <<>>)
             ELSE IF record.issuer # caller
             THEN Outcome(s, Err("Unauthorized"), <<>>)
             ELSE Outcome([s EXCEPT !.passports[token_id] =
                                        Some([record EXCEPT !.status = "Revoked",
                                                            !.updated_at = bn])],
                          OkUnit,
                          << [event |-> "PassportRevoked", token_id |-> token_id,
                              issuer |-> caller, reason |-> reason,
                              revoked_at |-> bn] >>)

\* Variant: a revocation also drops the token's single-token approval.
revoke_passport_clears_approval(s, caller, bn, token_id, reason) ==
    IF s.passports[token_id] = None
    THEN Outcome(s, Err("TokenNotFound"), <<>>)
    ELSE IF Unwrap(s.passports[token_id]).issuer # caller
    THEN Outcome(s, Err("Unauthorized"), <<>>)
    ELSE IF Unwrap(s.passports[token_id]).status = "Revoked"
    THEN Outcome(s, Err("AlreadyRevoked"), <<>>)
    ELSE Outcome([s EXCEPT !.passports[token_id] =
                               Some(revoked_record(Unwrap(s.passports[token_id]), bn)),
                           !.token_approvals[token_id] = None],
                 OkUnit,
                 << [event |-> "PassportRevoked", token_id |-> token_id,
                     issuer |-> caller, reason |-> reason, revoked_at |-> bn] >>)

\* Variant: the issuer may revoke a record again.
revoke_passport_repeatable(s, caller, bn, token_id, reason) ==
    IF s.passports[token_id] = None
    THEN Outcome(s, Err("TokenNotFound"), <<>>)
    ELSE IF Unwrap(s.passports[token_id]).issuer # caller
    THEN Outcome(s, Err("Unauthorized"), <<>>)
    ELSE Outcome([s EXCEPT !.passports[token_id] =
                               Some(revoked_record(Unwrap(s.passports[token_id]), bn))],
                 OkUnit,
                 << [event |-> "PassportRevoked", token_id |-> token_id,
                     issuer |-> caller, reason |-> reason, revoked_at |-> bn] >>)

revoke_passport(s, caller, bn, token_id, reason) ==
    IF s.passports[token_id] = None
    THEN Outcome(s, Err("TokenNotFound"), <<>>)
    ELSE LET record == Unwrap(s.passports[token_id])
         IN  IF record.issuer # caller
             THEN Outcome(s, Err("Unauthorized"), <<>>)
             ELSE IF record.status = "Revoked"
             THEN Outcome(s, Err("AlreadyRevoked"), <<>>)
             ELSE Outcome([s EXCEPT !.passports[token_id] = Some(revoked_record(record, bn))],
                          OkUnit,
                          << [event |-> "PassportRevoked", token_id |-> token_id,
                              issuer |-> caller, reason |-> reason,
                              revoked_at |-> bn] >>)

\* Variant: the approval is written before the caller is checked.
approve_writes_first(s, caller, to, token_id) ==
    IF owner_of(s, token_id) = None
    THEN Outcome(s, Err("TokenNotFound"), <<>>)
    ELSE LET owner == Unwrap(owner_of(s, token_id))
             s1 == [s EXCEPT !.token_approvals[token_id] = Some(to)]
         IN  IF to = owner
             THEN Outcome(s, Err("NotAllowed"), <<>>)
             ELSE IF caller # owner /\ ~is_approved_for_all(s, owner, caller)
             THEN Outcome(s1, Err("NotApproved"), <<>>)
             ELSE Outcome(s1, OkUnit,
                          << [event |-> "Approval", owner |-> owner, approved |-> to,
                              token_id |-> token_id] >>)

\* Variant: a revoked token takes no new approval.
approve_active_only(s, caller, to, token_id) ==
    IF owner_of(s, token_id) = None
    THEN Outcome(s, Err("TokenNotFound"), <<>>)
    ELSE IF Unwrap(s.passports[token_id]).status = "Revoked"
    THEN Outcome(s, Err("PassportRevoked"), <<>>)
    ELSE IF to = Unwrap(owner_of(s, token_id))
    THEN Outcome(s, Err("NotAllowed"), <<>>)
    ELSE IF owner_of(s, token_id) # Some(caller)
            /\ ~is_approved_for_all(s, Unwrap(owner_of(s, token_id)), caller)
    THEN Outcome(s, Err("NotApproved"), <<>>)
    ELSE Outcome([s EXCEPT !.token_approvals[token_id] = Some(to)], OkUnit,
                 << [event |-> "Approval", owner |-> Unwrap(owner_of(s, token_id)),
                     approved |-> to, token_id |-> token_id] >>)

\* Variant: the holder itself may be named as the approved identity.
approve_allows_holder(s, caller, to, token_id) ==
    IF owner_of(s, token_id) = None
    THEN Outcome(s, Err("TokenNotFound"), <<>>)
    ELSE IF owner_of(s, token_id) # Some(caller)
            /\ ~is_approved_for_all(s, Unwrap(owner_of(s, token_id)), caller)
    THEN Outcome(s, Err("NotApproved"), <<>>)
    ELSE Outcome([s EXCEPT !.token_approvals[token_id] = Some(to)], OkUnit,
                 << [event |-> "Approval", owner |-> Unwrap(owner_of(s, token_id)),
                     approved |-> to, token_id |-> token_id] >>)

\* Variant: the single-token-approved identity may approve as well.
approve_by_approved(s, caller, to, token_id) ==
    IF owner_of(s, token_id) = None
    THEN Outcome(s, Err("TokenNotFound"), <<>>)
    ELSE IF to = Unwrap(owner_of(s, token_id))
    THEN Outcome(s, Err("NotAllowed"), <<>>)
    ELSE IF ~approved_or_owner(s, caller, token_id, Unwrap(owner_of(s, token_id)))
    THEN Outcome(s, Err("NotApproved"), <<>>)
    ELSE Outcome([s EXCEPT !.token_approvals[token_id] = Some(to)], OkUnit,
                 << [event |-> "Approval", owner |-> Unwrap(owner_of(s, token_id)),
                     approved |-> to, token_id |-> token_id] >>)

approve(s, caller, to, token_id) ==
    IF owner_of(s, token_id) = None
    THEN Outcome(s, Err("TokenNotFound"), <<>>)
    ELSE LET owner == Unwrap(owner_of(s, token_id))
         IN  IF to = owner
             THEN Outcome(s, Err("NotAllowed"), <<>>)
             ELSE IF caller # owner /\ ~is_approved_for_all(s, owner, caller)
             THEN Outcome(s, Err("NotApproved"), <<>>)
             ELSE Outcome([s EXCEPT !.token_approvals[token_id] = Some(to)], OkUnit,
                          << [event |-> "Approval", owner |-> owner, approved |-> to,
                              token_id |-> token_id] >>)

\* Variant: the event is emitted only when the flag changes.
set_approval_for_all_silent_when_unchanged(s, caller, operator, approved) ==
    IF operator = caller
    THEN Outcome(s, Err("NotAllowed"), <<>>)
    ELSE Outcome([s EXCEPT !.operator_approvals =
                               IF approved THEN @ \cup {<<caller, operator>>}
                                           ELSE @ \ {<<caller, operator>>}],
                 OkUnit,
                 IF is_approved_for_all(s, caller, operator) = approved THEN <<>>
                 ELSE << [event |-> "ApprovalForAll", owner |-> caller,
                          operator |-> operator, approved |-> approved] >>)

set_approval_for_all(s, caller, operator, approved) ==
    IF operator = caller
    THEN Outcome(s, Err("NotAllowed"), <<>>)
    ELSE Outcome([s EXCEPT !.operator_approvals =
                               IF approved THEN @ \cup {<<caller, operator>>}
                                           ELSE @ \ {<<caller, operator>>}],
                 OkUnit,
                 << [event |-> "ApprovalForAll", owner |-> caller, operator |-> operator,
                     approved |-> approved] >>)

transfer(s, caller, to, token_id) == transfer_token_from(s, caller, caller, to, token_id)

transfer_from(s, caller, from, to, token_id) ==
    transfer_token_from(s, caller, from, to, token_id)

\* ------------------------------------------------------ version ledger reads
\* The entries found for versions lo ..= hi, in ascending order.
RECURSIVE scan(_, _, _, _)
scan(s, token_id, lo, hi) ==
    IF lo > hi THEN <<>>
    ELSE LET entry == s.version_history[<<token_id, lo>>]
         IN  (IF entry # None THEN <<Unwrap(entry)>> ELSE <<>>) \o scan(s, token_id, lo + 1, hi)

\* Variant: the order of the sequence is kept.
rev_keeps_order(q) == q

\* v.rev(): the sequence back to front.
rev(q) == [i \in 1 .. Len(q) |-> q[Len(q) + 1 - i]]

get_version_history(s, token_id) ==
    IF s.passports[token_id] = None THEN <<>>
    ELSE scan(s, token_id, 1, Unwrap(s.passports[token_id]).version)

get_recent_versions(s, token_id, limit) ==
    IF s.passports[token_id] = None THEN <<>>
    ELSE LET current_version == Unwrap(s.passports[token_id]).version
             start == IF current_version > limit THEN current_version - limit + 1 ELSE 1
         IN  rev(scan(s, token_id, start, current_version))

\* ------------------------------------------------------------ state machine
Init ==
    /\ passports = new.passports
    /\ next_token_id = new.next_token_id
    /\ version_history = new.version_history
    /\ subject_id_to_token = new.subject_id_to_token
    /\ token_owner = new.token_owner
    /\ token_approvals = new.token_approvals
    /\ owned_tokens_count = new.owned_tokens_count
    /\ operator_approvals = new.operator_approvals
    /\ block_number = 0
    /\ call = None
    /\ calls = 0
    /\ registered = <<>>
    /\ updates = [t \in TokenId |-> <<>>]
    /\ supplied = {}

\* The host runs message `op` for `caller` with arguments `args`; `r` is what
\* the message's code makes of the current storage.  The storage is left as
\* the code wrote it and the Result waits in `call` to be returned.
Run(op, caller, args, r) ==
    /\ IsOk(r.res) => calls < MaxCalls
    /\ passports' = r.st.passports
    /\ next_token_id' = r.st.next_token_id
    /\ version_history' = r.st.version_history
    /\ subject_id_to_token' = r.st.subject_id_to_token
    /\ token_owner' = r.st.token_owner
    /\ token_approvals' = r.st.token_approvals
    /\ owned_tokens_count' = r.st.owned_tokens_count
    /\ operator_approvals' = r.st.operator_approvals
    /\ call' = Some([op |-> op, caller |-> caller, args |-> args, at |-> block_number,
                     res |-> r.res, ev |-> r.ev, before |-> DppContractV2])
    /\ calls' = IF IsOk(r.res) THEN calls + 1 ELSE calls
    /\ UNCHANGED block_number

RegisterPassport ==
    /\ call = None
    /\ \E caller \in Address, a \in RegisterInputs :
        LET r == register_passport(DppContractV2, caller, block_number, a.dataset_uri,
                                   a.payload_hash, a.dataset_type, a.granularity,
                                   a.subject_id_hash)
        IN  /\ IsOk(r.res) => next_token_id < MaxTokens
            /\ Run("register_passport", caller, a, r)
            /\ registered' =
                   IF IsOk(r.res)
                   THEN Append(registered,
                               [token_id |-> r.res[2], caller |-> caller, at |-> block_number,
                                dataset_uri |-> a.dataset_uri, payload_hash |-> a.payload_hash,
                                dataset_type |-> a.dataset_type,
                                granularity |-> a.granularity])
                   ELSE registered
            /\ supplied' = IF IsOk(r.res) /\ a.subject_id_hash # None
                           THEN supplied \cup {Unwrap(a.subject_id_hash)}
                           ELSE supplied
            /\ UNCHANGED updates

UpdateDataset ==
    /\ call = None
    /\ \E caller \in Address, t \in TokenInputs, d \in DatasetInputs, sh \in SubjectInputs :
        LET r == update_dataset(DppContractV2, caller, block_number, t, d.dataset_uri,
                                d.payload_hash, d.dataset_type, sh)
        IN  /\ Run("update_dataset", caller,
                   [token_id |-> t, dataset_uri |-> d.dataset_uri,
                    payload_hash |-> d.payload_hash, dataset_type |-> d.dataset_type,
                    subject_id_hash |-> sh], r)
            /\ updates' =
                   IF IsOk(r.res)
                   THEN [updates EXCEPT ![t] =
                             Append(@, [dataset_uri |-> d.dataset_uri,
                                        payload_hash |-> d.payload_hash,
                                        dataset_type |-> d.dataset_type])]
                   ELSE updates
            /\ supplied' = IF IsOk(r.res) /\ sh # None
                           THEN supplied \cup {Unwrap(sh)}
                           ELSE supplied
            /\ UNCHANGED registered

RevokePassport ==
    /\ call = None
    /\ \E caller \in Address, t \in TokenInputs, reason \in ReasonInputs :
        /\ Run("revoke_passport", caller, [token_id |-> t, reason |-> reason],
               revoke_passport(DppContractV2, caller, block_number, t, reason))
        /\ UNCHANGED <<registered, updates, supplied>>

Approve ==
    /\ call = None
    /\ \E caller \in Address, to \in Address, t \in TokenInputs :
        /\ Run("approve", caller, [to |-> to, token_id |-> t],
               approve(DppContractV2, caller, to, t))
        /\ UNCHANGED <<registered, updates, supplied>>

SetApprovalForAll ==
    /\ call = None
    /\ \E caller \in Address, operator \in Address, approved \in BOOLEAN :
        /\ Run("set_approval_for_all", caller, [operator |-> operator, approved |-> approved],
               set_approval_for_all(DppContractV2, caller, operator, approved))
        /\ UNCHANGED <<registered, updates, supplied>>

Transfer ==
    /\ call = None
    /\ \E caller \in Address, to \in Address, t \in TokenInputs :
        /\ Run("transfer", caller, [from |-> caller, to |-> to, token_id |-> t],
               transfer(DppContractV2, caller, to, t))
        /\ UNCHANGED <<registered, updates, supplied>>

TransferFrom ==
    /\ call = None
    /\ \E caller \in Address, from \in Address, to \in Address, t \in TokenInputs :
        /\ Run("transfer_from", caller, [from |-> from, to |-> to, token_id |-> t],
               transfer_from(DppContractV2, caller, from, to, t))
        /\ UNCHANGED <<registered, updates, supplied>>

\* The Result reaches the caller; the contract is ready for the next message.
Return ==
    /\ call # None
    /\ call' = None
    /\ UNCHANGED <<storage_vars, block_number, calls, registered, updates, supplied>>

\* The host's counter moves on between messages; it never goes back.
AdvanceBlock ==
    /\ call = None
    /\ block_number < MaxBlock
    /\ block_number' = block_number + 1
    /\ UNCHANGED <<storage_vars, call, calls, registered, updates, supplied>>

Next ==
    \/ RegisterPassport
    \/ UpdateDataset
    \/ RevokePassport
    \/ Approve
    \/ SetApprovalForAll
    \/ Transfer
    \/ TransferFrom
    \/ Return
    \/ AdvanceBlock

Spec == Init /\ [][Next]_vars

\* ------------------------------------------------------------- properties
\* The message being returned, the storage it found and the storage now.
Msg == Unwrap(call)
Returning(op) == call # None /\ Msg.op = op
Succeeded(op) == Returning(op) /\ IsOk(Msg.res)
Failed(op, e) == Returning(op) /\ Msg.res = Err(e)
Before == Msg.before
Now == DppContractV2

Registered(t) == passports[t] # None
Record(t) == Unwrap(passports[t])
\* The log entry of the registration that returned token id t.
RegistrationOf(t) ==
    registered[CHOOSE i \in 1 .. Len(registered) : registered[i].token_id = t]
Content(e) ==
    [dataset_uri |-> e.dataset_uri, payload_hash |-> e.payload_hash,
     dataset_type |-> e.dataset_type]

RECURSIVE Sum(_, _)
Sum(f, S) == IF S = {} THEN 0
             ELSE LET x == CHOOSE y \in S : TRUE IN f[x] + Sum(f, S \ {x})

\* C1: token ids are allocated sequentially: the i-th successful
\* register_passport returns i-1 (the first 0, each later one the previous
\* plus one), and next_token_id is the number of successful registrations,
\* failed ones consuming nothing.
C1_SequentialTokenIds ==
    /\ next_token_id = Len(registered)
    /\ \A i \in 1 .. Len(registered) : registered[i].token_id = i - 1
    /\ Succeeded("register_passport") =>
           /\ Msg.res = Ok(Before.next_token_id)
           /\ next_token_id = Before.next_token_id + 1
    /\ (call # None /\ ~Succeeded("register_passport")) =>
           next_token_id = Before.next_token_id

\* Two registrations have succeeded and a third register_passport has failed.
C1_Witness ==
    /\ Len(registered) = 2
    /\ Failed("register_passport", "InvalidInput")

\* C2: balance_of(h) is the number of tokens whose holder is h, for every
\* identity h, and the balances add up to next_token_id.
C2_BalancesCountHoldings ==
    /\ \A h \in Address :
           balance_of(Now, h) =
               Cardinality({t \in TokenId : owner_of(Now, t) = Some(h)})
    /\ Sum([h \in Address |-> balance_of(Now, h)], Address) = next_token_id

\* Two tokens exist and one has just moved to another identity.
C2_Witness ==
    /\ next_token_id = 2
    /\ Succeeded("transfer_from")
    /\ Msg.args.from # Msg.args.to
    /\ balance_of(Now, Msg.args.to) = 2

\* C3: a token id has a holder exactly when it has a record, exactly when it
\* is below next_token_id; the record's token_id is its key; and right after
\* a registration the holder is the registering caller.
C3_HolderIffRegistered ==
    /\ \A t \in TokenId :
           /\ (owner_of(Now, t) # None) <=> (get_passport(Now, t) # None)
           /\ (get_passport(Now, t) # None) <=> (t < next_token_id)
           /\ Registered(t) => Record(t).token_id = t
    /\ Succeeded("register_passport") =>
           /\ owner_of(Now, Msg.res[2]) = Some(Msg.caller)
           /\ Record(Msg.res[2]).issuer = Msg.caller

\* A second token has just been registered while the first is held by
\* somebody other than its issuer.
C3_Witness ==
    /\ Succeeded("register_passport")
    /\ Msg.res = Ok(1)
    /\ owner_of(Now, 0) # Some(Record(0).issuer)

\* C4: a message that returns an error leaves the whole storage as it found
\* it and emits no event (no rollback by the host is involved: the storage is
\* what the code wrote).
C4_ErrorLeavesStateUnchanged ==
    (call # None /\ IsErr(Msg.res)) => (Now = Before /\ Msg.ev = <<>>)

\* A transfer_from by a caller who is not approved has failed on a token
\* that carries an approval for somebody else.
C4_Witness ==
    /\ Failed("transfer_from", "NotApproved")
    /\ get_approved(Now, Msg.args.token_id) # None

\* C5: a successful register_passport by caller c at block b creates the
\* record of the returned id with the content, granularity and subject hash
\* given, version 1, status Active, issuer c and created_at = updated_at = b,
\* makes c the holder and raises balance_of(c) by one.
C5_RegisterCreatesRecord ==
    Succeeded("register_passport") =>
        LET id == Msg.res[2]
        IN  /\ get_passport(Now, id) # None
            /\ Record(id).dataset_uri = Msg.args.dataset_uri
            /\ Record(id).payload_hash = Msg.args.payload_hash
            /\ Record(id).dataset_type = Msg.args.dataset_type
            /\ Record(id).granularity = Msg.args.granularity
            /\ Record(id).subject_id_hash = Msg.args.subject_id_hash
            /\ Record(id).version = 1
            /\ Record(id).status = "Active"
            /\ Record(id).issuer = Msg.caller
            /\ Record(id).created_at = Msg.at
            /\ Record(id).updated_at = Msg.at
            /\ owner_of(Now, id) = Some(Msg.caller)
            /\ balance_of(Now, Msg.caller) = balance_of(Before, Msg.caller) + 1

\* A caller who already holds a token registers another one, with a subject
\* hash, at a later block.
C5_Witness ==
    /\ Succeeded("register_passport")
    /\ Msg.args.subject_id_hash # None
    /\ Msg.at = 1
    /\ balance_of(Before, Msg.caller) = 1

\* The message was given an empty dataset reference or an empty content-type.
EmptyInput == Msg.args.dataset_uri = "" \/ Msg.args.dataset_type = ""

\* C6 as stated: register_passport and update_dataset with an empty dataset
\* reference or an empty content-type always yield InvalidInput and leave
\* the state unchanged.
C6_EmptyInputAlwaysInvalidInput ==
    ((Returning("register_passport") \/ Returning("update_dataset")) /\ EmptyInput) =>
        (Msg.res = Err("InvalidInput") /\ Now = Before)

\* C6 amended: with an empty dataset reference or content-type,
\* register_passport always yields InvalidInput; update_dataset yields
\* TokenNotFound for an unknown token, else Unauthorized for a caller who is
\* not the issuer, else PassportRevoked for a revoked record, and
\* InvalidInput otherwise; in every case the state is unchanged.
C6_EmptyInputFails ==
    /\ (Returning("register_passport") /\ EmptyInput) =>
           (Msg.res = Err("InvalidInput") /\ Now = Before)
    /\ (Returning("update_dataset") /\ EmptyInput) =>
           LET t == Msg.args.token_id
               kept == Before.passports[t]
           IN  /\ Now = Before
               /\ Msg.res =
                      IF kept = None THEN Err("TokenNotFound")
                      ELSE IF Unwrap(kept).issuer # Msg.caller THEN Err("Unauthorized")
                      ELSE IF Unwrap(kept).status = "Revoked" THEN Err("PassportRevoked")
                      ELSE Err("InvalidInput")

\* The issuer of an Active token, already updated once, has had an update
\* with an empty input refused as InvalidInput.
C6_Witness ==
    /\ Failed("update_dataset", "InvalidInput")
    /\ EmptyInput
    /\ Record(Msg.args.token_id).version = 2

\* C7: after n successful updates of a token its record has version n+1 and
\* get_version_history returns n+1 entries, numbered 1..n+1 in order, the
\* first with the content given at registration and entry k+1 with the
\* content given to the k-th successful update; hence the version moves only
\* by one, and only on a successful update_dataset.
C7_VersionCountsUpdates ==
    \A t \in TokenId :
        LET n == Len(updates[t])
            history == get_version_history(Now, t)
        IN  IF ~Registered(t)
            THEN n = 0 /\ history = <<>>
            ELSE /\ Record(t).version = n + 1
                 /\ Len(history) = n + 1
                 /\ \A k \in 1 .. (n + 1) : history[k].version = k
                 /\ Content(history[1]) = Content(RegistrationOf(t))
                 /\ \A k \in 1 .. n : Content(history[k + 1]) = updates[t][k]

\* A token has been updated twice, with different content each time.
C7_Witness ==
    /\ Len(updates[0]) = 2
    /\ updates[0][1] # updates[0][2]
    /\ Succeeded("update_dataset")

\* C8: get_version(token, v) is present exactly when the token is registered
\* and 1 <= v <= its current version, and no message changes or removes an
\* entry that was present when it started.
C8_LedgerAppendOnly ==
    /\ \A t \in TokenId, v \in Version :
           (get_version(Now, t, v) # None) <=> (Registered(t) /\ v <= Record(t).version)
    /\ call # None =>
           \A t \in TokenId, v \in Version :
               get_version(Before, t, v) # None =>
                   get_version(Now, t, v) = get_version(Before, t, v)

\* A third version has just been written over a ledger holding two.
C8_Witness ==
    /\ Succeeded("update_dataset")
    /\ get_version(Before, Msg.args.token_id, 2) # None
    /\ get_version(Now, Msg.args.token_id, 3) # None
    /\ Content(Unwrap(get_version(Now, Msg.args.token_id, 3))) #
           Content(Unwrap(get_version(Now, Msg.args.token_id, 2)))

\* C9: a record's granularity is the one given at its registration, and its
\* token_id, issuer and created_at are those of its registration, whatever
\* messages have run since.
C9_RegistrationFieldsImmutable ==
    /\ \A t \in TokenId :
           Registered(t) =>
               /\ Record(t).granularity = RegistrationOf(t).granularity
               /\ Record(t).token_id = RegistrationOf(t).token_id
               /\ Record(t).issuer = RegistrationOf(t).caller
               /\ Record(t).created_at = RegistrationOf(t).at
    /\ (call # None /\ ~Succeeded("register_passport")) =>
           \A t \in TokenId :
               (Before.passports[t] # None) =>
                   /\ Registered(t)
                   /\ Record(t).granularity = Unwrap(Before.passports[t]).granularity
                   /\ Record(t).token_id = Unwrap(Before.passports[t]).token_id
                   /\ Record(t).issuer = Unwrap(Before.passports[t]).issuer
                   /\ Record(t).created_at = Unwrap(Before.passports[t]).created_at

\* A token registered at block 0 has been updated, and is now revoked at
\* block 1.
C9_Witness ==
    /\ Succeeded("revoke_passport")
    /\ Len(updates[Msg.args.token_id]) = 1
    /\ Record(Msg.args.token_id).created_at = 0
    /\ Record(Msg.args.token_id).updated_at = 1

\* C10: update_dataset and revoke_passport on a registered token by a caller
\* who is not its issuer return Unauthorized, whatever the status and the
\* other arguments, and leave the record as it was.
C10_NonIssuerUnauthorized ==
    ((Returning("update_dataset") \/ Returning("revoke_passport"))
        /\ Before.passports[Msg.args.token_id] # None
        /\ Unwrap(Before.passports[Msg.args.token_id]).issuer # Msg.caller) =>
            /\ Msg.res = Err("Unauthorized")
            /\ passports[Msg.args.token_id] = Before.passports[Msg.args.token_id]

\* The holder of a revoked token, who is not its issuer, has tried to
\* revoke it.
C10_Witness ==
    /\ Failed("revoke_passport", "Unauthorized")
    /\ Record(Msg.args.token_id).status = "Revoked"
    /\ owner_of(Now, Msg.args.token_id) = Some(Msg.caller)

\* The record of token t was Revoked when the message being returned started.
WasRevoked(t) ==
    Before.passports[t] # None /\ Unwrap(Before.passports[t]).status = "Revoked"

\* C11: revocation is terminal: a record that is Revoked when a message
\* starts is the same record, with the same holder, when the message returns;
\* no update_dataset, transfer or transfer_from on it succeeds; and a
\* revocation succeeds only on a record that was not Revoked, so a token goes
\* from Active to Revoked at most once.
C11_RevocationTerminal ==
    call # None =>
        /\ \A t \in TokenId :
               WasRevoked(t) =>
                   /\ passports[t] = Before.passports[t]
                   /\ token_owner[t] = Before.token_owner[t]
        /\ (Msg.op \in {"update_dataset", "transfer", "transfer_from"}
               /\ WasRevoked(Msg.args.token_id)) => IsErr(Msg.res)
        /\ Succeeded("revoke_passport") =>
               /\ Unwrap(Before.passports[Msg.args.token_id]).status = "Active"
               /\ Record(Msg.args.token_id).status = "Revoked"

\* The issuer of a revoked token, with valid content, has been refused an
\* update at a block later than the revocation.
C11_Witness ==
    /\ Returning("update_dataset")
    /\ WasRevoked(Msg.args.token_id)
    /\ Record(Msg.args.token_id).issuer = Msg.caller
    /\ Msg.args.dataset_uri # "" /\ Msg.args.dataset_type # ""
    /\ Msg.at > Record(Msg.args.token_id).updated_at

\* C12: on a token whose record is Revoked, transfer and transfer_from fail
\* with PassportRevoked for every caller, every `from` and every `to`; this
\* is so for every call made right after a successful revoke_passport.
C12_TransferAfterRevokeFails ==
    /\ ((Returning("transfer") \/ Returning("transfer_from"))
           /\ WasRevoked(Msg.args.token_id)) =>
               Msg.res = Err("PassportRevoked")
    /\ Succeeded("revoke_passport") =>
           \A caller \in Address, from \in Address, to \in Address :
               /\ transfer_from(Now, caller, from, to, Msg.args.token_id).res =
                      Err("PassportRevoked")
               /\ transfer(Now, caller, to, Msg.args.token_id).res =
                      Err("PassportRevoked")

\* The holder of a revoked token, who is not its issuer, has been refused a
\* transfer of it.
C12_Witness ==
    /\ Failed("transfer", "PassportRevoked")
    /\ owner_of(Now, Msg.args.token_id) = Some(Msg.caller)
    /\ Record(Msg.args.token_id).issuer # Msg.caller
    /\ Msg.args.to # Msg.caller

\* C13 as stated: on a revoked token every update_dataset fails with
\* PassportRevoked.
C13_UpdateAfterRevokeAlwaysPassportRevoked ==
    (Returning("update_dataset") /\ WasRevoked(Msg.args.token_id)) =>
        Msg.res = Err("PassportRevoked")

\* C13 amended: on a revoked token every update_dataset fails and leaves the
\* storage as it was: with PassportRevoked when the caller is the issuer,
\* whatever the content given, and with Unauthorized when it is not.
C13_UpdateAfterRevokeFails ==
    (Returning("update_dataset") /\ WasRevoked(Msg.args.token_id)) =>
        /\ Now = Before
        /\ Msg.res =
               IF Unwrap(Before.passports[Msg.args.token_id]).issuer = Msg.caller
               THEN Err("PassportRevoked")
               ELSE Err("Unauthorized")

\* The issuer of a token that was updated and then revoked has been refused
\* an update with an empty dataset reference as PassportRevoked.
C13_Witness ==
    /\ Failed("update_dataset", "PassportRevoked")
    /\ Msg.args.dataset_uri = ""
    /\ Record(Msg.args.token_id).version = 2

\* C14 as stated: on a revoked token a second revoke_passport fails with
\* AlreadyRevoked.
C14_SecondRevokeAlwaysAlreadyRevoked ==
    (Returning("revoke_passport") /\ WasRevoked(Msg.args.token_id)) =>
        Msg.res = Err("AlreadyRevoked")

\* C14 amended: on a revoked token a second revoke_passport fails and leaves
\* the storage as it was: with AlreadyRevoked when the caller is the issuer
\* and with Unauthorized when it is not.
C14_SecondRevokeFails ==
    (Returning("revoke_passport") /\ WasRevoked(Msg.args.token_id)) =>
        /\ Now = Before
        /\ Msg.res =
               IF Unwrap(Before.passports[Msg.args.token_id]).issuer = Msg.caller
               THEN Err("AlreadyRevoked")
               ELSE Err("Unauthorized")

\* The issuer has tried, at a later block, to revoke again a token it had
\* revoked and no longer holds.
C14_Witness ==
    /\ Failed("revoke_passport", "AlreadyRevoked")
    /\ Msg.at > Record(Msg.args.token_id).updated_at
    /\ owner_of(Now, Msg.args.token_id) # Some(Msg.caller)

\* The caller is the holder of token t, its single-token-approved identity
\* or a blanket-approved operator of its holder, in storage s.
Authorized(s, caller, t) ==
    \/ owner_of(s, t) = Some(caller)
    \/ get_approved(s, t) = Some(caller)
    \/ (owner_of(s, t) # None /\ is_approved_for_all(s, Unwrap(owner_of(s, t)), caller))

\* The outcome the ownership rules give a transfer of token t from `from`.
TransferOutcome(s, caller, from, t) ==
    IF get_passport(s, t) = None THEN Err("TokenNotFound")
    ELSE IF Unwrap(get_passport(s, t)).status = "Revoked" THEN Err("PassportRevoked")
    ELSE IF owner_of(s, t) # Some(from) THEN Err("NotOwner")
    ELSE IF ~Authorized(s, caller, t) THEN Err("NotApproved")
    ELSE OkUnit

Transferring == Returning("transfer") \/ Returning("transfer_from")
Transferred == Succeeded("transfer") \/ Succeeded("transfer_from")

\* C15: transfer (with from = caller) and transfer_from return TokenNotFound
\* for a token without record, else PassportRevoked for a Revoked one, else
\* NotOwner when `from` is not the holder, else NotApproved when the caller
\* is neither holder nor approved nor operator, and succeed otherwise: for
\* the message being returned and for every call that could be made between
\* messages.  So no transfer succeeds for an unauthorized caller, and
\* transfer() by an approved identity that is not the holder is NotOwner.
C15_TransferOutcome ==
    /\ Transferring =>
           /\ Msg.res = TransferOutcome(Before, Msg.caller, Msg.args.from, Msg.args.token_id)
           /\ IsOk(Msg.res) => Authorized(Before, Msg.caller, Msg.args.token_id)
    /\ Returning("transfer") => Msg.args.from = Msg.caller
    /\ call = None =>
           \A caller \in Address, from \in Address, to \in Address, t \in TokenInputs :
               /\ transfer_from(Now, caller, from, to, t).res =
                      TransferOutcome(Now, caller, from, t)
               /\ transfer(Now, caller, to, t).res = TransferOutcome(Now, caller, caller, t)
    /\ (Returning("transfer")
           /\ get_approved(Before, Msg.args.token_id) = Some(Msg.caller)
           /\ owner_of(Before, Msg.args.token_id) # Some(Msg.caller)
           /\ Unwrap(get_passport(Before, Msg.args.token_id)).status = "Active") =>
               Msg.res = Err("NotOwner")

\* The approved identity of an Active token, who is not its holder, has
\* called transfer() on it.
C15_Witness ==
    /\ Returning("transfer")
    /\ get_approved(Before, Msg.args.token_id) = Some(Msg.caller)
    /\ owner_of(Before, Msg.args.token_id) # Some(Msg.caller)
    /\ Unwrap(get_passport(Before, Msg.args.token_id)).status = "Active"

\* C16: after approve(X, token) by the holder `owner` of an Active token,
\* transfer_from(owner, Y, token) called by X succeeds for every Y, makes Y
\* the holder and leaves no single-token approval; and every successful
\* transfer or transfer_from leaves its token held by `to` with no
\* single-token approval.
C16_ApprovedTransferClearsApproval ==
    /\ Transferred =>
           /\ owner_of(Now, Msg.args.token_id) = Some(Msg.args.to)
           /\ get_approved(Now, Msg.args.token_id) = None
    /\ (Succeeded("approve")
           /\ owner_of(Now, Msg.args.token_id) = Some(Msg.caller)
           /\ Record(Msg.args.token_id).status = "Active") =>
               \A Y \in Address :
                   LET r == transfer_from(Now, Msg.args.to, Msg.caller, Y, Msg.args.token_id)
                   IN  /\ r.res = OkUnit
                       /\ owner_of(r.st, Msg.args.token_id) = Some(Y)
                       /\ get_approved(r.st, Msg.args.token_id) = None

\* An identity that is only single-token-approved has moved the token from
\* its holder to a third identity.
C16_Witness ==
    /\ Succeeded("transfer_from")
    /\ get_approved(Before, Msg.args.token_id) = Some(Msg.caller)
    /\ ~is_approved_for_all(Before, Msg.args.from, Msg.caller)
    /\ Msg.caller # Msg.args.from
    /\ Msg.args.to \notin {Msg.caller, Msg.args.from}

\* C17 as stated: every successful transfer or transfer_from from holder
\* `owner` to Y leaves balance_of(owner) one lower and balance_of(Y) one
\* higher than before, and every other balance as it was.
C17_TransferMovesOneUnit ==
    Transferred =>
        /\ balance_of(Now, Msg.args.from) = balance_of(Before, Msg.args.from) - 1
        /\ balance_of(Now, Msg.args.to) = balance_of(Before, Msg.args.to) + 1
        /\ \A h \in Address \ {Msg.args.from, Msg.args.to} :
               balance_of(Now, h) = balance_of(Before, h)

\* C17 amended: a successful transfer or transfer_from from `owner` to a
\* different identity Y leaves balance_of(owner) one lower, balance_of(Y) one
\* higher and every other balance as it was; one from `owner` to itself
\* leaves every balance as it was.
C17_TransferMovesOneUnitToAnother ==
    Transferred =>
        /\ Msg.args.from # Msg.args.to =>
               /\ balance_of(Now, Msg.args.from) = balance_of(Before, Msg.args.from) - 1
               /\ balance_of(Now, Msg.args.to) = balance_of(Before, Msg.args.to) + 1
        /\ Msg.args.from = Msg.args.to =>
               balance_of(Now, Msg.args.from) = balance_of(Before, Msg.args.from)
        /\ \A h \in Address \ {Msg.args.from, Msg.args.to} :
               balance_of(Now, h) = balance_of(Before, h)

\* The holder of two tokens has transferred one of them to another identity.
C17_Witness ==
    /\ Succeeded("transfer")
    /\ Msg.args.to # Msg.caller
    /\ balance_of(Before, Msg.caller) = 2
    /\ balance_of(Now, Msg.caller) = 1
    /\ balance_of(Now, Msg.args.to) = 1

\* X, not the holder, has just moved the token with the single-token
\* approval it held.
UsedApproval ==
    /\ Succeeded("transfer_from")
    /\ get_approved(Before, Msg.args.token_id) = Some(Msg.caller)
    /\ Msg.caller # Msg.args.from

ApproveOutcome(s, caller, to, t) ==
    IF owner_of(s, t) = None THEN Err("TokenNotFound")
    ELSE IF owner_of(s, t) = Some(to) THEN Err("NotAllowed")
    ELSE IF owner_of(s, t) # Some(caller)
            /\ ~is_approved_for_all(s, Unwrap(owner_of(s, t)), caller)
         THEN Err("NotApproved")
         ELSE OkUnit

\* C19: approve(to, token) returns TokenNotFound for a token without holder,
\* else NotAllowed when `to` is the holder, else NotApproved when the caller
\* is neither the holder nor a blanket-approved operator of the holder (the
\* single-token-approved identity included), and succeeds otherwise; on
\* success get_approved(token) is `to`, whatever it was, and nothing else in
\* the storage has changed.
C19_ApproveOutcome ==
    /\ Returning("approve") =>
           /\ Msg.res = ApproveOutcome(Before, Msg.caller, Msg.args.to, Msg.args.token_id)
           /\ IsOk(Msg.res) =>
                  /\ get_approved(Now, Msg.args.token_id) = Some(Msg.args.to)
                  /\ Now = [Before EXCEPT !.token_approvals[Msg.args.token_id] =
                                              Some(Msg.args.to)]
                  /\ Len(Msg.ev) = 1
    /\ call = None =>
           \A caller \in Address, to \in Address, t \in TokenInputs :
               approve(Now, caller, to, t).res = ApproveOutcome(Now, caller, to, t)

\* The holder has replaced the token's approved identity by another one.
C19_Witness ==
    /\ Succeeded("approve")
    /\ get_approved(Before, Msg.args.token_id) # None
    /\ get_approved(Before, Msg.args.token_id) # Some(Msg.args.to)
    /\ owner_of(Now, Msg.args.token_id) = Some(Msg.caller)

\* C20: set_approval_for_all(operator, approved) fails with NotAllowed and
\* changes nothing when operator is the caller; otherwise it succeeds,
\* is_approved_for_all(caller, operator) is `approved` afterwards, every
\* other pair and the rest of the storage are as before, one event is
\* emitted whether or not the flag changed, and the same call made again
\* succeeds, emits again and leaves the storage as it is.
C20_SetApprovalForAll ==
    /\ Returning("set_approval_for_all") =>
           IF Msg.args.operator = Msg.caller
           THEN Msg.res = Err("NotAllowed") /\ Now = Before /\ Msg.ev = <<>>
           ELSE /\ Msg.res = OkUnit
                /\ is_approved_for_all(Now, Msg.caller, Msg.args.operator) = Msg.args.approved
                /\ \A o \in Address, p \in Address :
                       <<o, p>> # <<Msg.caller, Msg.args.operator>> =>
                           is_approved_for_all(Now, o, p) = is_approved_for_all(Before, o, p)
                /\ [Now EXCEPT !.operator_approvals = Before.operator_approvals] = Before
                /\ Len(Msg.ev) = 1
                /\ LET again == set_approval_for_all(Now, Msg.caller, Msg.args.operator,
                                                     Msg.args.approved)
                   IN  again.res = OkUnit /\ again.st = Now /\ Len(again.ev) = 1
    /\ call = None =>
           \A caller \in Address, operator \in Address, approved \in BOOLEAN :
               set_approval_for_all(Now, caller, operator, approved).res =
                   IF operator = caller THEN Err("NotAllowed") ELSE OkUnit

\* An operator already approved has been approved again: the flag has not
\* changed and the event has been emitted.
C20_Witness ==
    /\ Succeeded("set_approval_for_all")
    /\ Msg.args.approved
    /\ is_approved_for_all(Before, Msg.caller, Msg.args.operator)
    /\ Msg.ev # <<>>

\* The descriptors of DatasetInputs with no empty field.
ValidInputs == {d \in DatasetInputs : d.dataset_uri # "" /\ d.dataset_type # ""}

\* C21: whoever holds an Active token and whatever approvals exist, the
\* caller of its registration can update it (with valid content) and revoke
\* it, and every other identity, the holder, the approved identity and the
\* operators included, gets Unauthorized from both, in every state the
\* contract can be in between two messages; so every update or revocation
\* that succeeds was called by the original issuer.
C21_IssuerAuthoritySurvivesTransfer ==
    /\ \A t \in TokenInputs :
           (call = None /\ Registered(t) /\ Record(t).status = "Active") =>
               \A caller \in Address, d \in ValidInputs, sh \in SubjectInputs :
                   LET u == update_dataset(Now, caller, block_number, t, d.dataset_uri,
                                           d.payload_hash, d.dataset_type, sh).res
                       v == revoke_passport(Now, caller, block_number, t, None).res
                   IN  IF caller = RegistrationOf(t).caller
                       THEN u = OkUnit /\ v = OkUnit
                       ELSE u = Err("Unauthorized") /\ v = Err("Unauthorized")
    /\ (Succeeded("update_dataset") \/ Succeeded("revoke_passport")) =>
           Msg.caller = RegistrationOf(Msg.args.token_id).caller

\* The issuer has updated, at a later block, a token that it had transferred
\* to another identity.
C21_Witness ==
    /\ Succeeded("update_dataset")
    /\ owner_of(Now, Msg.args.token_id) # Some(Msg.caller)
    /\ Msg.at > Record(Msg.args.token_id).created_at

Min(a, b) == IF a < b THEN a ELSE b

\* C22: get_recent_versions(token, limit) returns min(limit, current
\* version) entries, those of the highest versions, newest first; with
\* limit >= current version that is get_version_history back to front; with
\* limit 0, and for an unknown token, it is empty.  (A read between two
\* messages: the storage a message leaves is the storage read after it.)
C22_RecentVersions ==
    call = None => \A t \in TokenId, limit \in LimitInputs :
        LET recent == get_recent_versions(Now, t, limit)
            history == get_version_history(Now, t)
        IN  IF ~Registered(t)
            THEN recent = <<>>
            ELSE LET n == Min(limit, Record(t).version)
                 IN  /\ Len(recent) = n
                     /\ \A i \in 1 .. n :
                            /\ recent[i].version = Record(t).version - i + 1
                            /\ Some(recent[i]) = get_version(Now, t, Record(t).version - i + 1)
                     /\ limit >= Record(t).version =>
                            /\ Len(recent) = Len(history)
                            /\ \A i \in 1 .. Len(history) :
                                   recent[i] = history[Len(history) + 1 - i]
                     /\ limit = 0 => recent = <<>>

\* A token has three versions, so that limits 0, 1 and 2 cut the history
\* and limits 3 and above return all of it.
C22_Witness ==
    /\ call = None
    /\ Registered(0)
    /\ Record(0).version = 3
    /\ Len(get_recent_versions(Now, 0, 2)) = 2
    /\ get_recent_versions(Now, 0, 2)[1].version = 3
    /\ ~Registered(1)

\* C23: right after a successful register_passport or update_dataset on
\* token t that gives subject hash h, find_token_by_subject_id(h) is t,
\* whatever token h was indexed to; and a hash that no successful call has
\* given is not indexed.
C23_IndexLastWriterWins ==
    /\ Succeeded("register_passport") =>
           \A h \in SubjectHash :
               Msg.args.subject_id_hash = Some(h) =>
                   find_token_by_subject_id(Now, h) = Some(Msg.res[2])
    /\ Succeeded("update_dataset") =>
           \A h \in SubjectHash :
               Msg.args.subject_id_hash = Some(h) =>
                   find_token_by_subject_id(Now, h) = Some(Msg.args.token_id)
    /\ \A h \in SubjectHash \ supplied : find_token_by_subject_id(Now, h) = None

\* A hash indexed to one token has been given to a call on another token,
\* while the other hash has never been given.
C23_Witness ==
    /\ Succeeded("register_passport") \/ Succeeded("update_dataset")
    /\ Msg.args.subject_id_hash # None
    /\ find_token_by_subject_id(Before, Unwrap(Msg.args.subject_id_hash)) # None
    /\ find_token_by_subject_id(Before, Unwrap(Msg.args.subject_id_hash)) #
           find_token_by_subject_id(Now, Unwrap(Msg.args.subject_id_hash))
    /\ supplied # SubjectHash

\* C24: every record's status is Active or Revoked; a registration leaves
\* its record Active; and a record is Revoked after a message without having
\* been Revoked before it only when the message is a successful
\* revoke_passport on that token.
C24_StatusActiveOrRevoked ==
    /\ \A t \in TokenId : Registered(t) => Record(t).status \in {"Active", "Revoked"}
    /\ Succeeded("register_passport") => Record(Msg.res[2]).status = "Active"
    /\ call # None =>
           \A t \in TokenId :
               (Registered(t) /\ Record(t).status = "Revoked" /\ ~WasRevoked(t)) =>
                   (Succeeded("revoke_passport") /\ Msg.args.token_id = t)

\* One token has just been revoked while the other one stays Active.
C24_Witness ==
    /\ Succeeded("revoke_passport")
    /\ next_token_id = 2
    /\ {Record(0).status, Record(1).status} = {"Active", "Revoked"}

\* The outcome the first applicable check gives update_dataset.
UpdateOutcome(s, caller, t, dataset_uri, dataset_type) ==
    IF get_passport(s, t) = None THEN Err("TokenNotFound")
    ELSE IF Unwrap(get_passport(s, t)).issuer # caller THEN Err("Unauthorized")
    ELSE IF Unwrap(get_passport(s, t)).status = "Revoked" THEN Err("PassportRevoked")
    ELSE IF dataset_uri = "" \/ dataset_type = "" THEN Err("InvalidInput")
    ELSE OkUnit

\* The outcome the first applicable check gives revoke_passport.
RevokeOutcome(s, caller, t) ==
    IF get_passport(s, t) = None THEN Err("TokenNotFound")
    ELSE IF Unwrap(get_passport(s, t)).issuer # caller THEN Err("Unauthorized")
    ELSE IF Unwrap(get_passport(s, t)).status = "Revoked" THEN Err("AlreadyRevoked")
    ELSE OkUnit

\* C25: update_dataset reports TokenNotFound, then Unauthorized, then
\* PassportRevoked, then InvalidInput, and revoke_passport TokenNotFound,
\* then Unauthorized, then AlreadyRevoked, the first that applies; on a token
\* id never registered both report TokenNotFound for every caller.
C25_ErrorPrecedence ==
    /\ Returning("update_dataset") =>
           Msg.res = UpdateOutcome(Before, Msg.caller, Msg.args.token_id,
                                   Msg.args.dataset_uri, Msg.args.dataset_type)
    /\ Returning("revoke_passport") =>
           Msg.res = RevokeOutcome(Before, Msg.caller, Msg.args.token_id)
    /\ call = None =>
           \A caller \in Address, t \in TokenInputs :
               /\ \A d \in DatasetInputs, sh \in SubjectInputs :
                      update_dataset(Now, caller, block_number, t, d.dataset_uri,
                                     d.payload_hash, d.dataset_type, sh).res =
                          UpdateOutcome(Now, caller, t, d.dataset_uri, d.dataset_type)
               /\ \A reason \in ReasonInputs :
                      revoke_passport(Now, caller, block_number, t, reason).res =
                          RevokeOutcome(Now, caller, t)
               /\ t >= Len(registered) =>
                      /\ \A d \in DatasetInputs, sh \in SubjectInputs :
                             update_dataset(Now, caller, block_number, t, d.dataset_uri,
                                            d.payload_hash, d.dataset_type, sh).res =
                                 Err("TokenNotFound")
                      /\ \A reason \in ReasonInputs :
                             revoke_passport(Now, caller, block_number, t, reason).res =
                                 Err("TokenNotFound")

\* A caller who is not the issuer has given an empty dataset reference for
\* a revoked token: three checks apply and Unauthorized is reported.
C25_Witness ==
    /\ Failed("update_dataset", "Unauthorized")
    /\ WasRevoked(Msg.args.token_id)
    /\ Msg.args.dataset_uri = ""

\* The message being returned is a successful update or revocation of t.
Refreshed(t) ==
    (Succeeded("update_dataset") \/ Succeeded("revoke_passport")) /\ Msg.args.token_id = t

\* C26: a successful update_dataset or revoke_passport leaves the record's
\* updated_at at the host counter of the call and no other message changes
\* the updated_at of a record; with a host counter that never goes back,
\* created_at <= updated_at for every record, updated_at never decreases,
\* and the ledger entries of a token have non-decreasing updated_at in
\* ascending version order.
C26_Timestamps ==
    /\ \A t \in TokenId :
           Registered(t) =>
               /\ Record(t).created_at <= Record(t).updated_at
               /\ Record(t).updated_at <= block_number
    /\ call # None =>
           \A t \in TokenId :
               Before.passports[t] # None =>
                   /\ Record(t).updated_at =
                          IF Refreshed(t) THEN Msg.at
                          ELSE Unwrap(Before.passports[t]).updated_at
                   /\ Record(t).updated_at >= Unwrap(Before.passports[t]).updated_at
    /\ \A t \in TokenId, v \in Version :
           (v > 1 /\ get_version(Now, t, v) # None) =>
               /\ get_version(Now, t, v - 1) # None
               /\ Unwrap(get_version(Now, t, v - 1)).updated_at <=
                      Unwrap(get_version(Now, t, v)).updated_at

\* A token registered and updated at block 0 has been updated again at
\* block 1.
C26_Witness ==
    /\ Succeeded("update_dataset")
    /\ Msg.at = 1
    /\ Record(Msg.args.token_id).version = 3
    /\ Unwrap(Before.passports[Msg.args.token_id]).updated_at = 0
    /\ Record(Msg.args.token_id).updated_at = 1

\* C27: an index entry is never removed: a hash that find_token_by_subject_id
\* finds before a message is found after it; and after a successful
\* update_dataset that replaces the record's subject hash h1 by another hash
\* or by none, find_token_by_subject_id(h1) is what it was before.
C27_IndexNeverRetracted ==
    call # None =>
        /\ \A h \in SubjectHash :
               find_token_by_subject_id(Before, h) # None =>
                   find_token_by_subject_id(Now, h) # None
        /\ Succeeded("update_dataset") =>
               LET old == Unwrap(Before.passports[Msg.args.token_id]).subject_id_hash
               IN  (old # None /\ old # Msg.args.subject_id_hash) =>
                       find_token_by_subject_id(Now, Unwrap(old)) =
                           find_token_by_subject_id(Before, Unwrap(old))

\* An update has replaced the record's subject hash by a different hash:
\* the old hash is still indexed to the token, whose record no longer
\* carries it.
C27_Witness ==
    /\ Succeeded("update_dataset")
    /\ Unwrap(Before.passports[Msg.args.token_id]).subject_id_hash = Some(42)
    /\ Record(Msg.args.token_id).subject_id_hash = Some(43)
    /\ find_token_by_subject_id(Now, 42) = Some(Msg.args.token_id)
    /\ find_token_by_subject_id(Now, 43) = Some(Msg.args.token_id)

\* The token ids the message being returned is not about.
OtherTokens ==
    IF Msg.op = "set_approval_for_all" THEN TokenId
    ELSE IF Msg.op = "register_passport" THEN TokenId \ {Before.next_token_id}
    ELSE TokenId \ {Msg.args.token_id}

\* C28: a successful revoke_passport changes the status and updated_at of
\* its record and nothing else in the storage, whatever the reason given;
\* update_dataset and revoke_passport change no holder, approval, operator
\* approval, balance or next_token_id; transfer, transfer_from, approve and
\* set_approval_for_all change no record, ledger entry, index entry or
\* next_token_id; and no message changes the record, ledger entries, holder
\* or approval of a token it is not about.
C28_SubsystemsSeparate ==
    call # None =>
        /\ Succeeded("revoke_passport") =>
               Now = [Before EXCEPT !.passports[Msg.args.token_id] =
                                        Some([Unwrap(@) EXCEPT !.status = "Revoked",
                                                               !.updated_at = Msg.at])]
        /\ Msg.op \in {"update_dataset", "revoke_passport"} =>
               /\ token_owner = Before.token_owner
               /\ token_approvals = Before.token_approvals
               /\ operator_approvals = Before.operator_approvals
               /\ owned_tokens_count = Before.owned_tokens_count
               /\ next_token_id = Before.next_token_id
        /\ Msg.op \in {"transfer", "transfer_from", "approve", "set_approval_for_all"} =>
               /\ passports = Before.passports
               /\ version_history = Before.version_history
               /\ subject_id_to_token = Before.subject_id_to_token
               /\ next_token_id = Before.next_token_id
        /\ \A u \in OtherTokens :
               /\ passports[u] = Before.passports[u]
               /\ token_owner[u] = Before.token_owner[u]
               /\ token_approvals[u] = Before.token_approvals[u]
               /\ \A v \in Version :
                      version_history[<<u, v>>] = Before.version_history[<<u, v>>]

\* The issuer has revoked, with a reason, a token that carries a single-token
\* approval.
C28_Witness ==
    /\ Succeeded("revoke_passport")
    /\ Msg.args.reason # None
    /\ get_approved(Now, Msg.args.token_id) # None

\* C29: a single-token approval, when present, is on a registered token and
\* is not the token's current holder.
C29_ApprovalNeverHolder ==
    \A t \in TokenId :
        get_approved(Now, t) # None =>
            /\ Registered(t)
            /\ get_approved(Now, t) # owner_of(Now, t)

\* The new holder of a transferred token has approved the former holder.
C29_Witness ==
    /\ Succeeded("approve")
    /\ get_approved(Now, Msg.args.token_id) = Some(Record(Msg.args.token_id).issuer)
    /\ owner_of(Now, Msg.args.token_id) = Some(Msg.caller)

\* C30: every ledger entry belongs to a registered token, has updated_by
\* equal to the token's issuer and a version field equal to the version of
\* its key; and the entry of the record's current version has the record's
\* dataset_uri, payload_hash and dataset_type.
C30_LedgerEntriesMatchRecord ==
    /\ \A t \in TokenId, v \in Version :
           get_version(Now, t, v) # None =>
               /\ Registered(t)
               /\ Unwrap(get_version(Now, t, v)).updated_by = Record(t).issuer
               /\ Unwrap(get_version(Now, t, v)).version = v
    /\ \A t \in TokenId :
           Registered(t) =>
               /\ get_version(Now, t, Record(t).version) # None
               /\ Content(Unwrap(get_version(Now, t, Record(t).version))) = Content(Record(t))

\* A token held by somebody other than its issuer has a second version
\* whose content differs from the first.
C30_Witness ==
    /\ call = None
    /\ Registered(0)
    /\ Record(0).version = 2
    /\ owner_of(Now, 0) # Some(Record(0).issuer)
    /\ Content(Unwrap(get_version(Now, 0, 1))) # Content(Record(0))


\* Storage s with the record of token t, if Revoked, made Active again.
Reinstated(s, t) ==
    [s EXCEPT !.passports[t] = Some([Unwrap(@) EXCEPT !.status = "Active"])]

\* C31: approve does not look at the record's status: on a Revoked token it
\* returns what it would return, and writes the approval it would write, if
\* the record were Active, and a successful approve sets get_approved to
\* `to` although no transfer of the token can succeed; set_approval_for_all
\* likewise gives the same result and the same flags with and without the
\* revocation.
C31_ApproveIgnoresStatus ==
    /\ call = None =>
           \A t \in TokenInputs :
               (Registered(t) /\ Record(t).status = "Revoked") =>
                   \A caller \in Address, to \in Address :
                       LET revoked == approve(Now, caller, to, t)
                           active == approve(Reinstated(Now, t), caller, to, t)
                           flag == set_approval_for_all(Now, caller, to, TRUE)
                           flagActive == set_approval_for_all(Reinstated(Now, t), caller, to, TRUE)
                           unflag == set_approval_for_all(Now, caller, to, FALSE)
                           unflagActive == set_approval_for_all(Reinstated(Now, t), caller, to, FALSE)
                       IN  /\ revoked.res = active.res
                           /\ revoked.res = ApproveOutcome(Now, caller, to, t)
                           /\ revoked.st.token_approvals = active.st.token_approvals
                           /\ revoked.ev = active.ev
                           /\ flag.res = flagActive.res
                           /\ flag.st.operator_approvals = flagActive.st.operator_approvals
                           /\ unflag.res = unflagActive.res
                           /\ unflag.st.operator_approvals = unflagActive.st.operator_approvals
    /\ (Succeeded("approve") /\ WasRevoked(Msg.args.token_id)) =>
           /\ get_approved(Now, Msg.args.token_id) = Some(Msg.args.to)
           /\ \A from \in Address, to \in Address :
                  transfer_from(Now, Msg.args.to, from, to, Msg.args.token_id).res =
                      Err("PassportRevoked")

\* The holder of a revoked token has given it an approved identity it did
\* not have.
C31_Witness ==
    /\ Succeeded("approve")
    /\ WasRevoked(Msg.args.token_id)
    /\ get_approved(Before, Msg.args.token_id) = None
    /\ get_approved(Now, Msg.args.token_id) = Some(Msg.args.to)

\* C32: the internal guards never fire.  Registration: the id to be
\* allocated has no holder, so add_token_to succeeds and InvalidInput from
\* register_passport means an empty input.  Transfer: a token with a record
\* has a holder, the holder's balance is at least 1, and whenever the checks
\* on status, `from` and caller pass, remove_token_from and then add_token_to
\* succeed; so transfer and transfer_from never return InvalidInput.
C32_InternalGuardsUnreachable ==
    /\ owner_of(Now, next_token_id) = None
    /\ call = None =>
           \A caller \in Address :
               add_token_to(Now, caller, next_token_id).res = OkUnit
    /\ Failed("register_passport", "InvalidInput") => EmptyInput
    /\ \A t \in TokenId :
           get_passport(Now, t) # None =>
               /\ owner_of(Now, t) # None
               /\ balance_of(Now, Unwrap(owner_of(Now, t))) >= 1
    /\ call = None =>
           \A caller \in Address, from \in Address, to \in Address, t \in TokenInputs :
               TransferOutcome(Now, caller, from, t) = OkUnit =>
                   LET removed == remove_token_from(clear_approval(Now, t), from, t)
                       added == add_token_to(removed.st, to, t)
                   IN  /\ removed.res = OkUnit
                       /\ added.res = OkUnit
                       /\ transfer_from(Now, caller, from, to, t).res = OkUnit
    /\ Transferring => Msg.res # Err("InvalidInput")

\* The holder of exactly one token has transferred it away: its balance has
\* gone from 1 to 0 through the checked subtraction.
C32_Witness ==
    /\ Succeeded("transfer_from")
    /\ Msg.args.from # Msg.args.to
    /\ balance_of(Before, Msg.args.from) = 1
    /\ balance_of(Now, Msg.args.from) = 0
    /\ Now.owned_tokens_count[Msg.args.from] = Some(0)

====
